---- MODULE Spec2Model ----
(***************************************************************************)
(* Model of the multi-agent code review workflow: run_review_workflow      *)
(* (main.py), ParallelReviewer.review_code (reviewer.py), the agent        *)
(* clients (ai_clients.py) and ReviewAggregator.aggregate (aggregator.py). *)
(***************************************************************************)
EXTENDS Integers, Sequences, FiniteSets, TLC

\* ------------------------------------------------------------------ bounds
MaxReviewers == 3
MaxAggLen == 3

\* --------------------------------------------------------------- constants
\* the client classes create_client knows
ClientNames == {"gemini", "claude", "codex"}

\* stdout texts of an agent process (abstract)
Outputs == {"o1", "o2"}

\* ------------------------------------------------------------ AIResponse
AIResponse(ok, out, err, name) ==
    [success |-> ok, output |-> out, errors |-> err, ai_name |-> name]

\* value of a variable that holds no response yet
NoResponse == AIResponse(FALSE, "", "None", "")

\* GeminiClient / ClaudeClient: success = (returncode == 0), output = stdout,
\* errors = stderr if returncode != 0 else None
SubprocessResponse(returncode, stdout, name) ==
    AIResponse(returncode = 0, stdout,
               IF returncode # 0 THEN "stderr" ELSE "None", name)

\* CodexClient.implement / CodexClient.review: always a failed response
CodexResponse(name) == AIResponse(FALSE, "", "Codex is currently disabled", name)

\* what one agent call may do: return with exit code 0, return with a
\* non-zero exit code, or raise out of _run_subprocess
CallOutcomes(name) ==
    IF name = "codex" THEN {"fail"} ELSE {"ok", "fail", "raise"}

\* the response a returning call produces
ResponseOf(name, outcome, out) ==
    IF name = "codex" THEN CodexResponse(name)
    ELSE SubprocessResponse(IF outcome = "ok" THEN 0 ELSE 1, out, name)

\* ------------------------------------------------- results of gather()
\* one slot per review task: pending, a returned AIResponse, a returned
\* exception object, or cancelled by wait_for
Pending == [kind |-> "pending", resp |-> NoResponse]
Cancelled == [kind |-> "cancelled", resp |-> NoResponse]
Raised == [kind |-> "exception", resp |-> NoResponse]
Returned(r) == [kind |-> "response", resp |-> r]

Diag(k, name) == [kind |-> k, ai_name |-> name]

\* variant: the success test of line 53 is missing
KeepsReview_NoSuccessTest(review) == review.kind = "response"

\* review_code lines 53-54: the test that lets a response through
KeepsReview(review) == review.kind = "response" /\ review.resp.success

\* variant: successful_reviews.insert(0, review) in place of append
FilterSuccessful_Reversed(rs) ==
    LET RECURSIVE Rev(_)
        Rev(n) == IF n = 0 THEN <<>>
                  ELSE IF KeepsReview(rs[n])
                       THEN <<rs[n].resp>> \o Rev(n - 1)
                       ELSE Rev(n - 1)
    IN Rev(Len(rs))

\* review_code lines 50-61: the responses kept, in task order
RECURSIVE FilterSuccessful(_)
FilterSuccessful(rs) ==
    IF rs = <<>> THEN <<>>
    ELSE (IF KeepsReview(Head(rs)) THEN <<Head(rs).resp>> ELSE <<>>)
         \o FilterSuccessful(Tail(rs))

\* variant: exception objects are dropped without a message
RECURSIVE FilterDiagnostics_SilentOnException(_)
FilterDiagnostics_SilentOnException(rs) ==
    IF rs = <<>> THEN <<>>
    ELSE (IF Head(rs).kind = "response" /\ ~Head(rs).resp.success
             THEN <<Diag("review_failed", Head(rs).resp.ai_name)>>
          ELSE <<>>)
         \o FilterDiagnostics_SilentOnException(Tail(rs))

\* review_code lines 55-59: one print per failed response / exception object
RECURSIVE FilterDiagnostics(_)
FilterDiagnostics(rs) ==
    IF rs = <<>> THEN <<>>
    ELSE (IF Head(rs).kind = "response" /\ ~Head(rs).resp.success
             THEN <<Diag("review_failed", Head(rs).resp.ai_name)>>
          ELSE IF Head(rs).kind = "exception"
             THEN <<Diag("review_error", "")>>
          ELSE <<>>)
         \o FilterDiagnostics(Tail(rs))

\* variant: gather() is awaited without wait_for
TimeoutElapses_Never(rs) == FALSE

\* wait_for raises TimeoutError only while gather() is not done
TimeoutElapses(rs) == \E i \in DOMAIN rs : rs[i].kind = "pending"

\* variant: the reviews completed before the deadline are returned
TimeoutResult_Partial(rs) == FilterSuccessful(rs)

\* review_code lines 63-65: the value returned on TimeoutError
TimeoutResult(rs) == <<>>

\* variant: the except branch reports the failed reviews, not the timeout
TimeoutDiagnostics_PerAgent(rs) == FilterDiagnostics(rs)

\* review_code line 64: the one message printed on TimeoutError
TimeoutDiagnostics(rs) == <<Diag("review_timeout", "")>>

\* variant: the pending children are left running when the timeout fires
CancelPending_LeavesRunning(rs) == rs

\* wait_for cancels gather(), which cancels every child still pending
CancelPending(rs) ==
    [i \in DOMAIN rs |-> IF rs[i].kind = "pending" THEN Cancelled ELSE rs[i]]

\* ------------------------------------------------------------- aggregate
\* variant: an agent name already in the dict is not overwritten
RECURSIVE reviews_by_ai_of_KeepFirst(_)
reviews_by_ai_of_KeepFirst(rs) ==
    IF rs = <<>> THEN <<>>
    ELSE LET n == Len(rs)
             d == reviews_by_ai_of_KeepFirst(SubSeq(rs, 1, n - 1))
             r == rs[n]
         IN IF r.success /\ r.ai_name \notin DOMAIN d
            THEN [k \in DOMAIN d \cup {r.ai_name} |->
                     IF k = r.ai_name THEN r.output ELSE d[k]]
            ELSE d

\* variant: the loop ends at the first review with success == false
RECURSIVE reviews_by_ai_of_StopsAtFailure(_)
reviews_by_ai_of_StopsAtFailure(rs) ==
    IF rs = <<>> THEN <<>>
    ELSE LET n == Len(rs)
             d == reviews_by_ai_of_StopsAtFailure(SubSeq(rs, 1, n - 1))
             r == rs[n]
         IN IF \A i \in 1..n : rs[i].success
            THEN [k \in DOMAIN d \cup {r.ai_name} |->
                     IF k = r.ai_name THEN r.output ELSE d[k]]
            ELSE d

\* aggregate lines 31-35: the dict built by the loop, as a function
RECURSIVE reviews_by_ai_of(_)
reviews_by_ai_of(rs) ==
    IF rs = <<>> THEN <<>>
    ELSE LET n == Len(rs)
             d == reviews_by_ai_of(SubSeq(rs, 1, n - 1))
             r == rs[n]
         IN IF r.success
            THEN [k \in DOMAIN d \cup {r.ai_name} |->
                     IF k = r.ai_name THEN r.output ELSE d[k]]
            ELSE d

\* aggregate lines 37-41
aggregate(rs) ==
    LET d == reviews_by_ai_of(rs)
    IN [total_reviews |-> Len(rs),
        successful_reviews |-> Cardinality(DOMAIN d),
        reviews_by_ai |-> d]

NoSummary == [total_reviews |-> -1, successful_reviews |-> -1,
              reviews_by_ai |-> <<>>]

\* ---------------------------------------------------- find_common_themes
\* bound on the argument list of a find_common_themes call made on its own
MaxThemeLen == 3

\* a text is the sequence of its characters; a character outside ASCII is
\* written by its code point
UpperCase == <<"A", "B", "C", "D", "E", "F", "G", "H", "I", "J", "K", "L", "M", "N", "O", "P", "Q", "R", "S", "T", "U", "V", "W", "X", "Y", "Z">>
LowerCase == <<"a", "b", "c", "d", "e", "f", "g", "h", "i", "j", "k", "l", "m", "n", "o", "p", "q", "r", "s", "t", "u", "v", "w", "x", "y", "z">>

\* str.lower() on one character
Lower(c) ==
    IF \E i \in DOMAIN UpperCase : UpperCase[i] = c
    THEN LowerCase[CHOOSE i \in DOMAIN UpperCase : UpperCase[i] = c]
    ELSE c

\* variant: the text is compared as it is
LowerText_AsIs(t) == t

\* str.lower()
LowerText(t) == [i \in DOMAIN t |-> Lower(t[i])]

\* k in t, for strings
Contains(k, t) ==
    \E start \in 1..(Len(t) - Len(k) + 1) :
        SubSeq(t, start, start + Len(k) - 1) = k

\* find_common_themes lines 54-56: the keyword list, each keyword under a
\* name in ASCII
keywords ==
    <<[keyword |-> "bug", chars |-> <<"b", "u", "g">>],
      [keyword |-> "cuowu", chars |-> <<"U9519", "U8BEF">>],
      [keyword |-> "error", chars |-> <<"e", "r", "r", "o", "r">>],
      [keyword |-> "issue", chars |-> <<"i", "s", "s", "u", "e">>],
      [keyword |-> "wenti", chars |-> <<"U95EE", "U9898">>],
      [keyword |-> "security", chars |-> <<"s", "e", "c", "u", "r", "i", "t", "y">>],
      [keyword |-> "anquan", chars |-> <<"U5B89", "U5168">>],
      [keyword |-> "performance", chars |-> <<"p", "e", "r", "f", "o", "r", "m", "a", "n", "c", "e">>],
      [keyword |-> "xingneng", chars |-> <<"U6027", "U80FD">>],
      [keyword |-> "optimize", chars |-> <<"o", "p", "t", "i", "m", "i", "z", "e">>],
      [keyword |-> "youhua", chars |-> <<"U4F18", "U5316">>],
      [keyword |-> "improve", chars |-> <<"i", "m", "p", "r", "o", "v", "e">>],
      [keyword |-> "gaijin", chars |-> <<"U6539", "U8FDB">>]>>

\* the texts the outputs stand for: "SECURITY bug", "debug Performance",
\* "Security", and a text with the keyword U+6539 U+8FDB and "issue"
TextOf(out) ==
    CASE out = "o1" -> <<"S", "E", "C", "U", "R", "I", "T", "Y", " ", "b", "u", "g">>
      [] out = "o2" -> <<"d", "e", "b", "u", "g", " ", "P", "e", "r", "f", "o", "r", "m", "a", "n", "c", "e">>
      [] out = "o3" -> <<"S", "e", "c", "u", "r", "i", "t", "y">>
      [] out = "o4" -> <<"U6539", "U8FDB", " ", "i", "s", "s", "u", "e">>
      [] OTHER -> <<>>

\* the outputs a text is given for
ThemeOutputs == {"o1", "o2", "o3", "o4", ""}

\* find_common_themes line 60: keyword.lower() in r.output.lower(), for
\* every keyword and output
KeywordInOutput ==
    [k \in DOMAIN keywords |->
        [out \in ThemeOutputs |->
            Contains(LowerText(keywords[k].chars), LowerText(TextOf(out)))]]

\* find_common_themes line 60: the number of reviews whose output holds
\* the keyword
KeywordCount(k, rs) ==
    Cardinality({i \in DOMAIN rs : KeywordInOutput[k][rs[i].output]})

\* find_common_themes lines 58-64: the loop over the first n keywords; an
\* entry stands for the string "<keyword> (<count>)"
RECURSIVE ThemesUpTo(_, _)
ThemesUpTo(n, rs) ==
    IF n = 0 THEN <<>>
    ELSE LET count == KeywordCount(n, rs)
         IN ThemesUpTo(n - 1, rs)
            \o (IF count >= 2
                THEN <<[keyword |-> keywords[n].keyword, count |-> count]>>
                ELSE <<>>)

find_common_themes(rs) == ThemesUpTo(Len(keywords), rs)

\* ------------------------------------------------------ improvement phase
\* main.py line 113: next((r for r in reviewers if r.name == name), None),
\* as the position of the first client carrying the name (0 for None)
FindReviewer(names, name) ==
    IF \E i \in DOMAIN names : names[i] = name
    THEN CHOOSE i \in DOMAIN names :
            names[i] = name /\ \A j \in DOMAIN names : names[j] = name => i <= j
    ELSE 0

\* hasattr(reviewer, 'improve_file'): GeminiClient and ClaudeClient define
\* it, CodexClient does not
HasImproveFile(name) == name \in {"gemini", "claude"}

\* variant: improve_file is started as a task and not awaited
LoopAwaits_FireAndForget(calls) == TRUE

\* main.py lines 119-124: the loop awaits the call it issued before it goes
\* on, so it issues a call only when none is in flight
LoopAwaits(calls) == calls = {}

\* what an agent process may have done to the file when its call ends
FileEffects(outcome) ==
    CASE outcome = "ok" -> {"edit"}
      [] outcome = "fail" -> {"none", "partial", "unlink"}
      [] OTHER -> {"none"}

ApplyEffect(file, name, effect) ==
    CASE effect = "none" -> file
      [] effect = "unlink" -> [file EXCEPT !.exists = FALSE]
      [] OTHER -> [file EXCEPT !.content = Append(@, <<name, effect>>)]

\* variant: the output is recorded whatever improved.success is
RecordImprovement_Always(logs, improved) ==
    [k \in DOMAIN logs \cup {improved.ai_name} |->
        IF k = improved.ai_name THEN improved.output ELSE logs[k]]

\* main.py lines 126-127: improvement_logs[review.ai_name] = improved.output
RecordImprovement(logs, improved) ==
    IF improved.success
    THEN [k \in DOMAIN logs \cup {improved.ai_name} |->
             IF k = improved.ai_name THEN improved.output ELSE logs[k]]
    ELSE logs

NoFile == [exists |-> FALSE, content |-> <<>>]
NoFinalCode == [available |-> FALSE, content |-> <<>>]

\* variant: the loop does not move on after a call (the review is taken again)
NextPosition_Retry(k) == k

\* main.py line 112: the for loop takes each entry of review_results once
NextPosition(k) == k + 1

\* variant: the content is taken as read whether or not open() raised
ReadFile_IgnoresError(file) == [available |-> TRUE, content |-> file.content]

\* main.py lines 132-137: open/read inside try; on an exception
\* final_improved_code stays None
ReadFile(file) ==
    IF file.exists
    THEN [available |-> TRUE, content |-> file.content]
    ELSE NoFinalCode

NoReport == [generated |-> FALSE, improvements |-> <<>>,
             has_improvements |-> FALSE, final_code |-> NoFinalCode]

\* ------------------------------------------------------------------ state
VARIABLES
    pc,                  \* position of run_review_workflow
    implementer_name,    \* argument
    reviewer_names,      \* argument: one client is created per entry
    enable_iteration,    \* argument
    implementation,      \* AIResponse of the implement call
    reviews,             \* the slots of gather(*tasks)
    blocks,              \* review tasks whose agent process never ends
    review_results,      \* value returned by review_code
    diagnostics,         \* messages printed, in order
    code_file,           \* the temporary file of the improvement phase
    next_review,         \* position of the improvement loop in review_results
    in_flight,           \* improve_file calls issued and not yet returned
    improve_calls,       \* every improve_file call issued, in order
    improvement_logs,    \* dict ai_name -> output
    final_improved_code, \* read-back of code_file
    report,              \* arguments handed to MarkdownReporter.generate
    agg_in,              \* argument of aggregate
    summary,             \* ReviewSummary returned by aggregate
    agg_perm,            \* the argument of a second aggregate call
    summary_perm,        \* ReviewSummary returned by that call
    themes_in,           \* argument of find_common_themes
    common_themes,       \* list returned by find_common_themes
    out_of_order,        \* history: a review call ended before one listed earlier
    cfg,                 \* main: the configuration loaded by load_config
    reviewer_list,       \* main: the parsed reviewer list
    loop_index,          \* main: position of the list iterator of the for loop
    instance,            \* Singleton._instance (0 for None)
    lock,                \* Singleton._lock: the thread holding it (0 for free)
    objects,             \* the objects created by super().__new__
    threads,             \* the threads constructing Singleton
    value_writes         \* history: every execution of self.value = value

vars == <<pc, implementer_name, reviewer_names, enable_iteration,
          implementation, reviews, blocks, review_results, diagnostics,
          code_file, next_review, in_flight, improve_calls, improvement_logs,
          final_improved_code, report, agg_in, summary, agg_perm,
          summary_perm, themes_in, common_themes, out_of_order,
          cfg, reviewer_list, loop_index,
          instance, lock, objects, threads, value_writes>>

main_vars == <<cfg, reviewer_list, loop_index>>
singleton_vars == <<instance, lock, objects, threads, value_writes>>

\* main has not been modelled as running: the workflow is called directly
MainIdle ==
    /\ cfg = [n \in ClientNames |-> [enabled |-> TRUE]]
    /\ reviewer_list = <<>>
    /\ loop_index = 0

\* no thread uses Singleton
SingletonIdle ==
    /\ instance = 0
    /\ lock = 0
    /\ objects = <<>>
    /\ threads = <<>>
    /\ value_writes = <<>>

RECURSIVE SeqsUpTo(_, _)
SeqsUpTo(S, n) ==
    IF n = 0 THEN {<<>>}
    ELSE LET shorter == SeqsUpTo(S, n - 1)
         IN shorter \cup {Append(q, x) : q \in shorter, x \in S}

ReviewerLists == SeqsUpTo(ClientNames, MaxReviewers) \ {<<>>}

Init ==
    /\ pc = "implement"
    /\ implementer_name \in ClientNames
    /\ reviewer_names \in ReviewerLists
    /\ enable_iteration \in BOOLEAN
    /\ implementation = NoResponse
    /\ reviews = <<>>
    /\ blocks = {}
    /\ review_results = <<>>
    /\ diagnostics = <<>>
    /\ code_file = NoFile
    /\ next_review = 0
    /\ in_flight = {}
    /\ improve_calls = <<>>
    /\ improvement_logs = <<>>
    /\ final_improved_code = NoFinalCode
    /\ report = NoReport
    /\ agg_in = <<>>
    /\ summary = NoSummary
    /\ agg_perm = <<>>
    /\ summary_perm = NoSummary
    /\ themes_in = <<>>
    /\ common_themes = <<>>
    /\ out_of_order = FALSE
    /\ MainIdle
    /\ SingletonIdle

\* ------------------------------------------------------- phase 1: implement
\* variant: the test of implementation.success is missing
ProceedsToReview_Always(r) == TRUE

\* main.py lines 64-66: the workflow goes on only when the implementation
\* succeeded
ProceedsToReview(r) == r.success

\* main.py line 62: the implement call is issued
ImplementCall ==
    /\ pc = "implement"
    /\ pc' = "implementing"
    /\ UNCHANGED <<implementer_name, reviewer_names, enable_iteration,
                   implementation, reviews, blocks, review_results,
                   diagnostics, code_file, next_review, in_flight,
                   improve_calls, improvement_logs, final_improved_code,
                   report, agg_in, summary>>
    /\ UNCHANGED <<agg_perm, summary_perm, themes_in, common_themes, out_of_order>>
    /\ UNCHANGED <<main_vars, singleton_vars>>

\* main.py lines 62-68: the implement call ends
ImplementReturn ==
    /\ pc = "implementing"
    /\ \E outcome \in CallOutcomes(implementer_name) :
         IF outcome = "raise"
         THEN /\ pc' = "crashed"
              /\ UNCHANGED <<implementation, diagnostics>>
         ELSE LET r == ResponseOf(implementer_name, outcome, "code")
              IN /\ implementation' = r
                 /\ IF ProceedsToReview(r)
                    THEN pc' = "review" /\ UNCHANGED diagnostics
                    ELSE /\ pc' = "done"
                         /\ diagnostics' = Append(diagnostics,
                                Diag("implement_failed", implementer_name))
    /\ UNCHANGED <<implementer_name, reviewer_names, enable_iteration,
                   reviews, blocks, review_results, code_file, next_review,
                   in_flight, improve_calls, improvement_logs,
                   final_improved_code, report, agg_in, summary>>
    /\ UNCHANGED <<agg_perm, summary_perm, themes_in, common_themes, out_of_order>>
    /\ UNCHANGED <<main_vars, singleton_vars>>

\* ---------------------------------------------------------- phase 2: review
\* reviewer.py lines 33-47: one task per reviewer, handed to gather()
CreateReviewTasks ==
    /\ pc = "review"
    /\ reviews' = [i \in DOMAIN reviewer_names |-> Pending]
    /\ blocks' \in SUBSET {i \in DOMAIN reviewer_names : reviewer_names[i] # "codex"}
    /\ pc' = "reviewing"
    /\ UNCHANGED <<implementer_name, reviewer_names, enable_iteration,
                   implementation, review_results, diagnostics, code_file,
                   next_review, in_flight, improve_calls, improvement_logs,
                   final_improved_code, report, agg_in, summary>>
    /\ UNCHANGED <<agg_perm, summary_perm, themes_in, common_themes, out_of_order>>
    /\ UNCHANGED <<main_vars, singleton_vars>>

\* one review task ends: it returns an AIResponse or raises
SettleTask(i) ==
    /\ pc = "reviewing"
    /\ reviews[i].kind = "pending"
    /\ i \notin blocks
    /\ \E outcome \in CallOutcomes(reviewer_names[i]), out \in Outputs :
         reviews' = [reviews EXCEPT ![i] =
                        IF outcome = "raise" THEN Raised
                        ELSE Returned(ResponseOf(reviewer_names[i], outcome, out))]
    /\ UNCHANGED <<pc, implementer_name, reviewer_names, enable_iteration,
                   implementation, blocks, review_results, diagnostics,
                   code_file, next_review, in_flight, improve_calls,
                   improvement_logs, final_improved_code, report, agg_in,
                   summary>>
    /\ UNCHANGED <<agg_perm, summary_perm, themes_in, common_themes>>
    /\ UNCHANGED <<main_vars, singleton_vars>>

ReviewSettle(i) == SettleTask(i) /\ UNCHANGED out_of_order

\* the same step, recording whether a task ended while a task listed before
\* it was still pending
ReviewSettleTraced(i) ==
    /\ SettleTask(i)
    /\ out_of_order' = (out_of_order \/
                           \E j \in DOMAIN reviews :
                               j < i /\ reviews[j].kind = "pending")

\* reviewer.py lines 44-61: gather() is done before the timeout
GatherDone ==
    /\ pc = "reviewing"
    /\ \A i \in DOMAIN reviews : reviews[i].kind # "pending"
    /\ review_results' = FilterSuccessful(reviews)
    /\ diagnostics' = diagnostics \o FilterDiagnostics(reviews)
    /\ pc' = "reviewed"
    /\ UNCHANGED <<implementer_name, reviewer_names, enable_iteration,
                   implementation, reviews, blocks, code_file, next_review,
                   in_flight, improve_calls, improvement_logs,
                   final_improved_code, report, agg_in, summary>>
    /\ UNCHANGED <<agg_perm, summary_perm, themes_in, common_themes, out_of_order>>
    /\ UNCHANGED <<main_vars, singleton_vars>>

\* reviewer.py lines 63-65: the timeout elapses first
ReviewTimeout ==
    /\ pc = "reviewing"
    /\ TimeoutElapses(reviews)
    /\ reviews' = CancelPending(reviews)
    /\ review_results' = TimeoutResult(reviews)
    /\ diagnostics' = diagnostics \o TimeoutDiagnostics(reviews)
    /\ pc' = "reviewed"
    /\ UNCHANGED <<implementer_name, reviewer_names, enable_iteration,
                   implementation, blocks, code_file, next_review, in_flight,
                   improve_calls, improvement_logs, final_improved_code,
                   report, agg_in, summary>>
    /\ UNCHANGED <<agg_perm, summary_perm, themes_in, common_themes, out_of_order>>
    /\ UNCHANGED <<main_vars, singleton_vars>>

\* ----------------------------------------------------- phase 3: improvement
\* main.py lines 100-110: the code is saved to a temporary file
SaveCodeFile ==
    /\ pc = "reviewed"
    /\ enable_iteration /\ review_results # <<>>
    /\ code_file' = [exists |-> TRUE, content |-> <<<<implementation.output, "saved">>>>]
    /\ next_review' = 1
    /\ pc' = "improving"
    /\ UNCHANGED <<implementer_name, reviewer_names, enable_iteration,
                   implementation, reviews, blocks, review_results,
                   diagnostics, in_flight, improve_calls, improvement_logs,
                   final_improved_code, report, agg_in, summary>>
    /\ UNCHANGED <<agg_perm, summary_perm, themes_in, common_themes, out_of_order>>
    /\ UNCHANGED <<main_vars, singleton_vars>>

\* main.py line 101: the condition is false, phase 3 is skipped
SkipImprovement ==
    /\ pc = "reviewed"
    /\ ~(enable_iteration /\ review_results # <<>>)
    /\ pc' = "report"
    /\ UNCHANGED <<implementer_name, reviewer_names, enable_iteration,
                   implementation, reviews, blocks, review_results,
                   diagnostics, code_file, next_review, in_flight,
                   improve_calls, improvement_logs, final_improved_code,
                   report, agg_in, summary>>
    /\ UNCHANGED <<agg_perm, summary_perm, themes_in, common_themes, out_of_order>>
    /\ UNCHANGED <<main_vars, singleton_vars>>

\* main.py lines 112-124: the loop takes the next review; it skips it or
\* issues improve_file on the client found by name
ImproveNext ==
    /\ pc = "improving"
    /\ next_review <= Len(review_results)
    /\ LoopAwaits(in_flight)
    /\ LET review == review_results[next_review]
           reviewer == FindReviewer(reviewer_names, review.ai_name)
       IN IF reviewer = 0 \/ ~HasImproveFile(reviewer_names[reviewer])
          THEN UNCHANGED <<in_flight, improve_calls>>
          ELSE /\ improve_calls' = Append(improve_calls,
                      [review |-> next_review, client |-> reviewer,
                       ai_name |-> review.ai_name, saw |-> code_file,
                       wrote |-> code_file, status |-> "in_flight",
                       output |-> ""])
               /\ in_flight' = in_flight \cup {Len(improve_calls) + 1}
    /\ next_review' = NextPosition(next_review)
    /\ UNCHANGED <<pc, implementer_name, reviewer_names, enable_iteration,
                   implementation, reviews, blocks, review_results,
                   diagnostics, code_file, improvement_logs,
                   final_improved_code, report, agg_in, summary>>
    /\ UNCHANGED <<agg_perm, summary_perm, themes_in, common_themes, out_of_order>>
    /\ UNCHANGED <<main_vars, singleton_vars>>

\* main.py lines 120-130: an improve_file call ends
ImproveReturn(c) ==
    /\ pc = "improving"
    /\ c \in in_flight
    /\ \E outcome \in CallOutcomes(improve_calls[c].ai_name), out \in Outputs :
       \E effect \in FileEffects(outcome) :
         LET name == improve_calls[c].ai_name
             improved == ResponseOf(name, outcome, out)
             file == ApplyEffect(code_file, name, effect)
         IN /\ code_file' = file
            /\ improve_calls' = [improve_calls EXCEPT
                                    ![c].wrote = file,
                                    ![c].status = outcome,
                                    ![c].output = IF improved.success
                                                  THEN improved.output ELSE ""]
            /\ in_flight' = in_flight \ {c}
            /\ IF outcome = "raise"
               THEN /\ pc' = "crashed"
                    /\ UNCHANGED <<improvement_logs, diagnostics>>
               ELSE /\ pc' = pc
                    /\ improvement_logs' = RecordImprovement(improvement_logs, improved)
                    /\ diagnostics' =
                         IF improved.success THEN diagnostics
                         ELSE Append(diagnostics, Diag("improve_failed", name))
    /\ UNCHANGED <<implementer_name, reviewer_names, enable_iteration,
                   implementation, reviews, blocks, review_results,
                   next_review, final_improved_code, report, agg_in, summary>>
    /\ UNCHANGED <<agg_perm, summary_perm, themes_in, common_themes, out_of_order>>
    /\ UNCHANGED <<main_vars, singleton_vars>>

\* main.py lines 132-137: the file is read back
ReadBack ==
    /\ pc = "improving"
    /\ next_review > Len(review_results)
    /\ in_flight = {}
    /\ final_improved_code' = ReadFile(code_file)
    /\ pc' = "report"
    /\ UNCHANGED <<implementer_name, reviewer_names, enable_iteration,
                   implementation, reviews, blocks, review_results,
                   diagnostics, code_file, next_review, in_flight,
                   improve_calls, improvement_logs, report, agg_in, summary>>
    /\ UNCHANGED <<agg_perm, summary_perm, themes_in, common_themes, out_of_order>>
    /\ UNCHANGED <<main_vars, singleton_vars>>

\* ---------------------------------------------------------- phase 4: report
\* main.py lines 139-167
Report ==
    /\ pc = "report"
    /\ agg_in' = review_results
    /\ summary' = aggregate(review_results)
    /\ themes_in' = review_results
    /\ common_themes' = find_common_themes(review_results)
    /\ report' = [generated |-> TRUE,
                  improvements |-> IF enable_iteration THEN improvement_logs ELSE <<>>,
                  has_improvements |-> enable_iteration,
                  final_code |-> IF enable_iteration THEN final_improved_code
                                 ELSE NoFinalCode]
    /\ pc' = "done"
    /\ UNCHANGED <<implementer_name, reviewer_names, enable_iteration,
                   implementation, reviews, blocks, review_results,
                   diagnostics, code_file, next_review, in_flight,
                   improve_calls, improvement_logs, final_improved_code>>
    /\ UNCHANGED <<agg_perm, summary_perm, out_of_order>>
    /\ UNCHANGED <<main_vars, singleton_vars>>

Next ==
    \/ ImplementCall
    \/ ImplementReturn
    \/ CreateReviewTasks
    \/ \E i \in DOMAIN reviews : ReviewSettle(i)
    \/ GatherDone
    \/ ReviewTimeout
    \/ SaveCodeFile
    \/ SkipImprovement
    \/ ImproveNext
    \/ \E c \in in_flight : ImproveReturn(c)
    \/ ReadBack
    \/ Report

Spec == Init /\ [][Next]_vars

\* ------------------------------------------- one call of review_code
\* the state in which run_review_workflow calls review_code (main.py line 88)
ReviewInit ==
    /\ pc = "review"
    /\ implementer_name \in {n \in ClientNames : "ok" \in CallOutcomes(n)}
    /\ implementation = ResponseOf(implementer_name, "ok", "code")
    /\ reviewer_names \in ReviewerLists
    /\ enable_iteration \in BOOLEAN
    /\ reviews = <<>>
    /\ blocks = {}
    /\ review_results = <<>>
    /\ diagnostics = <<>>
    /\ code_file = NoFile
    /\ next_review = 0
    /\ in_flight = {}
    /\ improve_calls = <<>>
    /\ improvement_logs = <<>>
    /\ final_improved_code = NoFinalCode
    /\ report = NoReport
    /\ agg_in = <<>>
    /\ summary = NoSummary
    /\ agg_perm = <<>>
    /\ summary_perm = NoSummary
    /\ themes_in = <<>>
    /\ common_themes = <<>>
    /\ out_of_order = FALSE
    /\ MainIdle
    /\ SingletonIdle

ReviewNext ==
    \/ CreateReviewTasks
    \/ \E i \in DOMAIN reviews : ReviewSettle(i)
    \/ GatherDone
    \/ ReviewTimeout

\* the event loop runs the timer callback of wait_for and resumes
\* review_code when gather() is done; nothing makes a review call end
ReviewLiveSpec ==
    /\ ReviewInit
    /\ [][ReviewNext]_vars
    /\ WF_vars(ReviewTimeout)
    /\ WF_vars(GatherDone)

\* ------------------- the workflow from review_code on, completion order traced
OrderNext ==
    \/ CreateReviewTasks
    \/ \E i \in DOMAIN reviews : ReviewSettleTraced(i)
    \/ GatherDone
    \/ ReviewTimeout
    \/ SaveCodeFile
    \/ SkipImprovement
    \/ ImproveNext
    \/ \E c \in in_flight : ImproveReturn(c)
    \/ ReadBack
    \/ Report

\* the implementer plays no part after line 62: one implementer is enough
OrderInit == ReviewInit /\ implementer_name = "gemini"

OrderSpec == OrderInit /\ [][OrderNext]_vars

\* ------------------------------------------- aggregate as a pure function
AggResponses ==
    {AIResponse(ok, out, IF ok THEN "None" ELSE "stderr", name) :
        ok \in BOOLEAN, out \in Outputs, name \in ClientNames}

AggInit ==
    /\ pc = "aggregate"
    /\ agg_in \in SeqsUpTo(AggResponses, MaxAggLen)
    /\ implementer_name = "gemini"
    /\ reviewer_names = <<>>
    /\ enable_iteration = FALSE
    /\ implementation = NoResponse
    /\ reviews = <<>>
    /\ blocks = {}
    /\ review_results = <<>>
    /\ diagnostics = <<>>
    /\ code_file = NoFile
    /\ next_review = 0
    /\ in_flight = {}
    /\ improve_calls = <<>>
    /\ improvement_logs = <<>>
    /\ final_improved_code = NoFinalCode
    /\ report = NoReport
    /\ summary = NoSummary
    /\ agg_perm = <<>>
    /\ summary_perm = NoSummary
    /\ themes_in = <<>>
    /\ common_themes = <<>>
    /\ out_of_order = FALSE
    /\ MainIdle
    /\ SingletonIdle

\* aggregator.py: aggregate(reviews) is called
AggregateCall ==
    /\ pc = "aggregate"
    /\ summary' = aggregate(agg_in)
    /\ pc' = "aggregated"
    /\ UNCHANGED <<implementer_name, reviewer_names, enable_iteration,
                   implementation, reviews, blocks, review_results,
                   diagnostics, code_file, next_review, in_flight,
                   improve_calls, improvement_logs, final_improved_code,
                   report, agg_in>>
    /\ UNCHANGED <<agg_perm, summary_perm, themes_in, common_themes, out_of_order>>
    /\ UNCHANGED <<main_vars, singleton_vars>>

AggNext == AggregateCall

AggSpec == AggInit /\ [][AggNext]_vars

\* ------------------------------- aggregate on a list and on a reordering
\* every reordering of a list
PermsOf(rs) ==
    LET n == Len(rs)
        bij == {f \in [1..n -> 1..n] : \A i, j \in 1..n : i # j => f[i] # f[j]}
    IN {[i \in 1..n |-> rs[f[i]]] : f \in bij}

PermInit ==
    /\ pc = "aggregate"
    /\ agg_in \in SeqsUpTo(AggResponses, MaxAggLen)
    /\ agg_perm \in PermsOf(agg_in)
    /\ implementer_name = "gemini"
    /\ reviewer_names = <<>>
    /\ enable_iteration = FALSE
    /\ implementation = NoResponse
    /\ reviews = <<>>
    /\ blocks = {}
    /\ review_results = <<>>
    /\ diagnostics = <<>>
    /\ code_file = NoFile
    /\ next_review = 0
    /\ in_flight = {}
    /\ improve_calls = <<>>
    /\ improvement_logs = <<>>
    /\ final_improved_code = NoFinalCode
    /\ report = NoReport
    /\ summary = NoSummary
    /\ summary_perm = NoSummary
    /\ themes_in = <<>>
    /\ common_themes = <<>>
    /\ out_of_order = FALSE
    /\ MainIdle
    /\ SingletonIdle

\* aggregator.py: aggregate is called on the reordered list
AggregatePermCall ==
    /\ pc = "aggregated"
    /\ summary_perm' = aggregate(agg_perm)
    /\ pc' = "aggregated_both"
    /\ UNCHANGED <<implementer_name, reviewer_names, enable_iteration,
                   implementation, reviews, blocks, review_results,
                   diagnostics, code_file, next_review, in_flight,
                   improve_calls, improvement_logs, final_improved_code,
                   report, agg_in, summary, agg_perm, themes_in,
                   common_themes, out_of_order>>
    /\ UNCHANGED <<main_vars, singleton_vars>>

PermNext == AggregateCall \/ AggregatePermCall

PermSpec == PermInit /\ [][PermNext]_vars

\* ------------------------------- find_common_themes as a pure function
ThemeResponses ==
    {AIResponse(ok, out, IF ok THEN "None" ELSE "stderr", "gemini") :
        ok \in BOOLEAN, out \in ThemeOutputs}

ThemeInit ==
    /\ pc = "themes"
    /\ themes_in \in SeqsUpTo(ThemeResponses, MaxThemeLen)
    /\ implementer_name = "gemini"
    /\ reviewer_names = <<>>
    /\ enable_iteration = FALSE
    /\ implementation = NoResponse
    /\ reviews = <<>>
    /\ blocks = {}
    /\ review_results = <<>>
    /\ diagnostics = <<>>
    /\ code_file = NoFile
    /\ next_review = 0
    /\ in_flight = {}
    /\ improve_calls = <<>>
    /\ improvement_logs = <<>>
    /\ final_improved_code = NoFinalCode
    /\ report = NoReport
    /\ agg_in = <<>>
    /\ summary = NoSummary
    /\ agg_perm = <<>>
    /\ summary_perm = NoSummary
    /\ common_themes = <<>>
    /\ out_of_order = FALSE
    /\ MainIdle
    /\ SingletonIdle

\* aggregator.py: find_common_themes(reviews) is called
FindCommonThemesCall ==
    /\ pc = "themes"
    /\ common_themes' = find_common_themes(themes_in)
    /\ pc' = "themes_found"
    /\ UNCHANGED <<implementer_name, reviewer_names, enable_iteration,
                   implementation, reviews, blocks, review_results,
                   diagnostics, code_file, next_review, in_flight,
                   improve_calls, improvement_logs, final_improved_code,
                   report, agg_in, summary, agg_perm, summary_perm,
                   themes_in, out_of_order>>
    /\ UNCHANGED <<main_vars, singleton_vars>>

ThemeNext == FindCommonThemesCall

ThemeSpec == ThemeInit /\ [][ThemeNext]_vars

\* ------------------------------------------------------------------ main
\* list.remove(x): the first occurrence of x is taken out
RemoveFirst(list, x) ==
    LET first == CHOOSE i \in DOMAIN list :
                    list[i] = x /\ \A j \in DOMAIN list : list[j] = x => i <= j
    IN [k \in 1..(Len(list) - 1) |-> IF k < first THEN list[k] ELSE list[k + 1]]

Configs == [ClientNames -> [enabled : BOOLEAN]]

\* the variables of run_review_workflow that main does not touch
workflow_vars == <<implementer_name, enable_iteration, implementation,
                   reviews, blocks, review_results, code_file, next_review,
                   in_flight, improve_calls, improvement_logs,
                   final_improved_code, report, agg_in, summary, agg_perm,
                   summary_perm, themes_in, common_themes, out_of_order>>

\* main.py lines 227-230: the configuration is loaded and the -r option split
MainInit ==
    /\ pc = "main"
    /\ cfg \in Configs
    /\ reviewer_list \in ReviewerLists
    /\ loop_index = 0
    /\ implementer_name \in ClientNames
    /\ enable_iteration \in BOOLEAN
    /\ reviewer_names = <<>>
    /\ implementation = NoResponse
    /\ reviews = <<>>
    /\ blocks = {}
    /\ review_results = <<>>
    /\ diagnostics = <<>>
    /\ code_file = NoFile
    /\ next_review = 0
    /\ in_flight = {}
    /\ improve_calls = <<>>
    /\ improvement_logs = <<>>
    /\ final_improved_code = NoFinalCode
    /\ report = NoReport
    /\ agg_in = <<>>
    /\ summary = NoSummary
    /\ agg_perm = <<>>
    /\ summary_perm = NoSummary
    /\ themes_in = <<>>
    /\ common_themes = <<>>
    /\ out_of_order = FALSE
    /\ SingletonIdle

\* main.py lines 233-235
CheckImplementer ==
    /\ pc = "main"
    /\ IF cfg[implementer_name].enabled
       THEN pc' = "check_reviewers" /\ UNCHANGED diagnostics
       ELSE /\ pc' = "exit"
            /\ diagnostics' = Append(diagnostics,
                                  Diag("implementer_disabled", implementer_name))
    /\ UNCHANGED <<reviewer_names, cfg, reviewer_list, loop_index>>
    /\ UNCHANGED <<workflow_vars, singleton_vars>>

\* main.py lines 237-240, one pass of the for loop: the list iterator yields
\* the item at its position and moves on by one; a disabled reviewer is
\* removed from the list that is being iterated
CheckReviewer ==
    /\ pc = "check_reviewers"
    /\ loop_index < Len(reviewer_list)
    /\ LET reviewer == reviewer_list[loop_index + 1]
       IN IF ~cfg[reviewer].enabled
          THEN /\ diagnostics' = Append(diagnostics,
                                     Diag("reviewer_skipped", reviewer))
               /\ reviewer_list' = RemoveFirst(reviewer_list, reviewer)
          ELSE UNCHANGED <<diagnostics, reviewer_list>>
    /\ loop_index' = loop_index + 1
    /\ UNCHANGED <<pc, reviewer_names, cfg>>
    /\ UNCHANGED <<workflow_vars, singleton_vars>>

\* the iterator is exhausted: its position is not inside the list any more
EndReviewerLoop ==
    /\ pc = "check_reviewers"
    /\ loop_index >= Len(reviewer_list)
    /\ pc' = "check_empty"
    /\ UNCHANGED <<reviewer_names, diagnostics, cfg, reviewer_list, loop_index>>
    /\ UNCHANGED <<workflow_vars, singleton_vars>>

\* main.py lines 242-263: exit without reviewers, else run_review_workflow
\* is called with reviewer_names = reviewer_list
CheckEmpty ==
    /\ pc = "check_empty"
    /\ IF reviewer_list = <<>>
       THEN /\ pc' = "exit"
            /\ diagnostics' = Append(diagnostics, Diag("no_reviewers", ""))
            /\ UNCHANGED reviewer_names
       ELSE /\ pc' = "implement"
            /\ reviewer_names' = reviewer_list
            /\ UNCHANGED diagnostics
    /\ UNCHANGED <<cfg, reviewer_list, loop_index>>
    /\ UNCHANGED <<workflow_vars, singleton_vars>>

MainNext ==
    \/ CheckImplementer
    \/ CheckReviewer
    \/ EndReviewerLoop
    \/ CheckEmpty

MainSpec == MainInit /\ [][MainNext]_vars

\* ------------------------------------------------------------- Singleton
MaxThreads == 2
MaxCalls == 2

Threads == 1..MaxThreads
Values == {"First Instance", "Second Instance"}

\* an object as super().__new__ returns it: no attribute is set
NewObject == [initialized |-> "absent", value |-> "absent"]

\* a thread that is not inside a constructor call
IdleThread == [pc |-> "idle", value |-> "absent", temp |-> 0, self |-> 0,
               calls |-> 0, returned |-> <<>>]

\* singleton.py line 11: if not cls._instance (an instance is truthy)
FirstCheck(inst) == inst = 0

\* variant: the test under the lock is missing
SecondCheck_Skipped(inst) == TRUE

\* singleton.py line 14: the test repeated under the lock
SecondCheck(inst) == inst = 0

\* singleton.py line 24: hasattr(self, '_initialized') and self._initialized
AlreadyInitialized(obj) == obj.initialized = "true"

\* the variables Singleton does not touch
non_singleton_vars == <<pc, reviewer_names, diagnostics, workflow_vars,
                        main_vars>>

SingletonInit ==
    /\ pc = "singleton"
    /\ instance = 0
    /\ lock = 0
    /\ objects = <<>>
    /\ threads = [t \in Threads |-> IdleThread]
    /\ value_writes = <<>>
    /\ implementer_name = "gemini"
    /\ reviewer_names = <<>>
    /\ enable_iteration = FALSE
    /\ implementation = NoResponse
    /\ reviews = <<>>
    /\ blocks = {}
    /\ review_results = <<>>
    /\ diagnostics = <<>>
    /\ code_file = NoFile
    /\ next_review = 0
    /\ in_flight = {}
    /\ improve_calls = <<>>
    /\ improvement_logs = <<>>
    /\ final_improved_code = NoFinalCode
    /\ report = NoReport
    /\ agg_in = <<>>
    /\ summary = NoSummary
    /\ agg_perm = <<>>
    /\ summary_perm = NoSummary
    /\ themes_in = <<>>
    /\ common_themes = <<>>
    /\ out_of_order = FALSE
    /\ MainIdle

\* a thread evaluates Singleton(value): type.__call__ enters __new__
Call(t) ==
    /\ threads[t].pc = "idle"
    /\ threads[t].calls < MaxCalls
    /\ \E v \in Values :
         threads' = [threads EXCEPT ![t].pc = "new_check1", ![t].value = v,
                                    ![t].temp = 0, ![t].self = 0]
    /\ UNCHANGED <<instance, lock, objects, value_writes>>
    /\ UNCHANGED non_singleton_vars

\* line 11
NewFirstCheck(t) ==
    /\ threads[t].pc = "new_check1"
    /\ threads' = [threads EXCEPT ![t].pc = IF FirstCheck(instance)
                                            THEN "new_acquire"
                                            ELSE "new_return"]
    /\ UNCHANGED <<instance, lock, objects, value_writes>>
    /\ UNCHANGED non_singleton_vars

\* line 12: with cls._lock blocks until the lock is free
NewAcquire(t) ==
    /\ threads[t].pc = "new_acquire"
    /\ lock = 0
    /\ lock' = t
    /\ threads' = [threads EXCEPT ![t].pc = "new_check2"]
    /\ UNCHANGED <<instance, objects, value_writes>>
    /\ UNCHANGED non_singleton_vars

\* line 14
NewSecondCheck(t) ==
    /\ threads[t].pc = "new_check2"
    /\ threads' = [threads EXCEPT ![t].pc = IF SecondCheck(instance)
                                            THEN "new_create"
                                            ELSE "new_release"]
    /\ UNCHANGED <<instance, lock, objects, value_writes>>
    /\ UNCHANGED non_singleton_vars

\* line 15, right-hand side: super().__new__(cls) creates an object
NewCreate(t) ==
    /\ threads[t].pc = "new_create"
    /\ objects' = Append(objects, NewObject)
    /\ threads' = [threads EXCEPT ![t].pc = "new_store",
                                  ![t].temp = Len(objects) + 1]
    /\ UNCHANGED <<instance, lock, value_writes>>
    /\ UNCHANGED non_singleton_vars

\* line 15, the assignment to cls._instance
NewStore(t) ==
    /\ threads[t].pc = "new_store"
    /\ instance' = threads[t].temp
    /\ threads' = [threads EXCEPT ![t].pc = "new_release"]
    /\ UNCHANGED <<lock, objects, value_writes>>
    /\ UNCHANGED non_singleton_vars

\* the with block is left: the lock is released
NewRelease(t) ==
    /\ threads[t].pc = "new_release"
    /\ lock' = 0
    /\ threads' = [threads EXCEPT ![t].pc = "new_return"]
    /\ UNCHANGED <<instance, objects, value_writes>>
    /\ UNCHANGED non_singleton_vars

\* line 16: return cls._instance; type.__call__ then calls __init__ on it
NewReturn(t) ==
    /\ threads[t].pc = "new_return"
    /\ threads' = [threads EXCEPT ![t].pc = "init_check", ![t].self = instance]
    /\ UNCHANGED <<instance, lock, objects, value_writes>>
    /\ UNCHANGED non_singleton_vars

\* lines 24-25; on return the constructor call gives self to the caller
InitCheck(t) ==
    /\ threads[t].pc = "init_check"
    /\ threads' =
         IF AlreadyInitialized(objects[threads[t].self])
         THEN [threads EXCEPT ![t].pc = "idle",
                              ![t].calls = @ + 1,
                              ![t].returned = Append(@, threads[t].self)]
         ELSE [threads EXCEPT ![t].pc = "init_value"]
    /\ UNCHANGED <<instance, lock, objects, value_writes>>
    /\ UNCHANGED non_singleton_vars

\* line 27: self.value = value
InitValue(t) ==
    /\ threads[t].pc = "init_value"
    /\ objects' = [objects EXCEPT ![threads[t].self].value = threads[t].value]
    /\ value_writes' = Append(value_writes,
                              [thread |-> t, call |-> threads[t].calls + 1,
                               value |-> threads[t].value])
    /\ threads' = [threads EXCEPT ![t].pc = "init_flag"]
    /\ UNCHANGED <<instance, lock>>
    /\ UNCHANGED non_singleton_vars

\* line 28: self._initialized = True, and the constructor call returns self
InitFlag(t) ==
    /\ threads[t].pc = "init_flag"
    /\ objects' = [objects EXCEPT ![threads[t].self].initialized = "true"]
    /\ threads' = [threads EXCEPT ![t].pc = "idle",
                                  ![t].calls = @ + 1,
                                  ![t].returned = Append(@, threads[t].self)]
    /\ UNCHANGED <<instance, lock, value_writes>>
    /\ UNCHANGED non_singleton_vars

SingletonNext ==
    \/ \E t \in Threads : Call(t)
    \/ \E t \in Threads : NewFirstCheck(t)
    \/ \E t \in Threads : NewAcquire(t)
    \/ \E t \in Threads : NewSecondCheck(t)
    \/ \E t \in Threads : NewCreate(t)
    \/ \E t \in Threads : NewStore(t)
    \/ \E t \in Threads : NewRelease(t)
    \/ \E t \in Threads : NewReturn(t)
    \/ \E t \in Threads : InitCheck(t)
    \/ \E t \in Threads : InitValue(t)
    \/ \E t \in Threads : InitFlag(t)

SingletonSpec == SingletonInit /\ [][SingletonNext]_vars

\* ================================================================ claims
\* review_code has returned to run_review_workflow
ReviewCodeReturned ==
    reviews # <<>> /\ pc \notin {"implement", "implementing", "review", "reviewing"}

SucceededTasks == {i \in DOMAIN reviews :
                      reviews[i].kind = "response" /\ reviews[i].resp.success}
FailedTasks == {i \in DOMAIN reviews :
                   reviews[i].kind = "response" /\ ~reviews[i].resp.success}
RaisedTasks == {i \in DOMAIN reviews : reviews[i].kind = "exception"}
CancelledTasks == {i \in DOMAIN reviews : reviews[i].kind = "cancelled"}

\* C1: whatever the reviewers did (returned success, returned failure,
\* raised, never returned), the list review_code returns is no longer than
\* the reviewer list and holds only responses with success == true.
C1_OnlySuccessfulReturned ==
    ReviewCodeReturned =>
        /\ Len(review_results) <= Len(reviewer_names)
        /\ \A k \in DOMAIN review_results : review_results[k].success = TRUE

C1_Witness ==
    /\ ReviewCodeReturned
    /\ review_results # <<>>
    /\ FailedTasks # {}
    /\ RaisedTasks # {}

\* C2: when the timeout elapsed with a review call still pending (that call
\* was cancelled), review_code returned the empty list, also when other
\* reviewers had completed with success == true before.
C2_TimeoutReturnsEmpty ==
    CancelledTasks # {} => review_results = <<>>

C2_Witness ==
    /\ ReviewCodeReturned
    /\ Len(reviews) = 3
    /\ CancelledTasks # {} /\ CancelledTasks \cap blocks # {}
    /\ SucceededTasks # {}
    /\ FailedTasks # {}
    /\ review_results = <<>>

\* C3: review_code always returns: a run that is waiting for the reviews
\* eventually leaves that wait, also when review calls block forever.
C3_ReviewCodeReturns ==
    (pc = "reviewing") ~> (pc # "reviewing")

C3_Witness ==
    /\ ReviewCodeReturned
    /\ blocks # {}
    /\ \A i \in blocks : reviews[i].kind = "cancelled"

Count(S) == Cardinality(S)

\* C4: when every review call settled before the timeout, the returned list
\* holds exactly the responses with success == true (each as often as it was
\* produced), every other reviewer is left out, each of them produced one
\* diagnostic (by name for a failed response), and review_code returned
\* normally.
C4_FailuresDoNotAbortSiblings ==
    (ReviewCodeReturned /\ CancelledTasks = {}) =>
        /\ Len(review_results) = Count(SucceededTasks)
        /\ \A i \in SucceededTasks :
              Count({k \in DOMAIN review_results : review_results[k] = reviews[i].resp})
              = Count({j \in SucceededTasks : reviews[j].resp = reviews[i].resp})
        /\ Count({d \in DOMAIN diagnostics : diagnostics[d].kind = "review_error"})
              = Count(RaisedTasks)
        /\ \A n \in ClientNames :
              Count({d \in DOMAIN diagnostics :
                        diagnostics[d] = Diag("review_failed", n)})
              = Count({i \in FailedTasks : reviews[i].resp.ai_name = n})
        /\ Count({d \in DOMAIN diagnostics : diagnostics[d].kind = "review_timeout"}) = 0

C4_Witness ==
    /\ ReviewCodeReturned
    /\ CancelledTasks = {}
    /\ SucceededTasks # {}
    /\ FailedTasks # {}
    /\ RaisedTasks # {}

\* the temporary file as SaveCodeFile wrote it
SavedCodeFile == [exists |-> TRUE, content |-> <<<<implementation.output, "saved">>>>]

\* C5: the improve_file calls run one at a time in the order of
\* review_results: at most one is in flight, a call is issued only after
\* every earlier one has ended, no review call is pending meanwhile, and a
\* call finds the file as the previous call left it.
C5_ImprovementsStrictlySequential ==
    /\ Cardinality(in_flight) <= 1
    /\ in_flight # {} => \A i \in DOMAIN reviews : reviews[i].kind # "pending"
    /\ \A c \in DOMAIN improve_calls :
          /\ c > 1 => /\ improve_calls[c - 1].status # "in_flight"
                      /\ improve_calls[c - 1].review < improve_calls[c].review
                      /\ improve_calls[c].saw = improve_calls[c - 1].wrote
          /\ c = 1 => improve_calls[c].saw = SavedCodeFile

C5_Witness ==
    /\ Len(improve_calls) >= 2
    /\ in_flight = {2}
    /\ improve_calls[1].wrote # improve_calls[1].saw
    /\ improve_calls[2].saw = improve_calls[1].wrote

OkCalls == {c \in DOMAIN improve_calls : improve_calls[c].status = "ok"}
FailedCalls == {c \in DOMAIN improve_calls : improve_calls[c].status = "fail"}
LastOf(S) == CHOOSE m \in S : \A x \in S : x <= m

\* the improvement loop ran to its end
ImprovementFinished == next_review >= 1 /\ pc \in {"report", "done"}

\* C6 as claimed: after the improvement phase improvement_logs has an entry
\* for every reviewer whose improve_file was invoked, whether the call
\* returned success == true or success == false.
C6_EveryInvocationRecorded ==
    ImprovementFinished =>
        \A c \in DOMAIN improve_calls :
            improve_calls[c].ai_name \in DOMAIN improvement_logs

\* C6: improvement_logs has an entry exactly for the agent names with an
\* improve_file call that returned success == true, mapped to the output of
\* the last such call; a call that returned success == false adds no entry
\* and produces one diagnostic.
C6_SuccessfulInvocationsRecorded ==
    /\ DOMAIN improvement_logs = {improve_calls[c].ai_name : c \in OkCalls}
    /\ \A n \in DOMAIN improvement_logs :
          improvement_logs[n] =
             improve_calls[LastOf({c \in OkCalls : improve_calls[c].ai_name = n})].output
    /\ \A n \in ClientNames :
          Count({d \in DOMAIN diagnostics : diagnostics[d] = Diag("improve_failed", n)})
          = Count({c \in FailedCalls : improve_calls[c].ai_name = n})

C6_Witness ==
    /\ ImprovementFinished
    /\ OkCalls # {}
    /\ \E c \in FailedCalls : improve_calls[c].ai_name \notin DOMAIN improvement_logs

\* the run is over: run_review_workflow returned or raised
RunEnded == pc \in {"done", "crashed"}

\* C7: when a run that entered the improvement phase is over, no call was
\* made on a client without improve_file and it has no entry in
\* improvement_logs, exactly one call was made for every successful review
\* of a client that has improve_file, and with reviewers [A, B] where only A
\* has it the file read back holds the saved code and edits of A only.
C7_CapabilityDecidesInvocation ==
    (RunEnded /\ next_review >= 1) =>
        /\ \A c \in DOMAIN improve_calls : improve_calls[c].ai_name # "codex"
        /\ "codex" \notin DOMAIN improvement_logs
        /\ \A k \in DOMAIN review_results :
              review_results[k].ai_name \in {"gemini", "claude"} =>
                 Count({c \in DOMAIN improve_calls : improve_calls[c].review = k}) = 1
        /\ (Len(reviewer_names) = 2 /\ reviewer_names[2] = "codex"
               /\ final_improved_code.available) =>
              \A e \in DOMAIN final_improved_code.content :
                 e > 1 => final_improved_code.content[e][1] = reviewer_names[1]

\* C8: when the run is over the temporary code file does not exist.
C8_ArtifactRemovedAtRunEnd ==
    RunEnded => ~code_file.exists

\* C9: no fault raised by an agent call ends run_review_workflow with an
\* uncaught exception.
C9_NoUncaughtAgentFault ==
    pc # "crashed"

\* C10: the summary aggregate returns has total_reviews = the length of
\* the input, reviews_by_ai holding exactly the agent names with a
\* success == true entry, each mapped to the output of the last such entry,
\* and successful_reviews = the number of keys <= total_reviews; two
\* successful reviews with distinct names give 2 and two keys.
C10_AggregateSummary ==
    pc = "aggregated" =>
        LET good == {i \in DOMAIN agg_in : agg_in[i].success}
            names == {agg_in[i].ai_name : i \in good}
        IN /\ summary.total_reviews = Len(agg_in)
           /\ DOMAIN summary.reviews_by_ai = names
           /\ \A n \in names :
                 summary.reviews_by_ai[n] =
                    agg_in[LastOf({i \in good : agg_in[i].ai_name = n})].output
           /\ summary.successful_reviews = Cardinality(names)
           /\ summary.successful_reviews <= summary.total_reviews
           /\ (Len(agg_in) = 2 /\ good = {1, 2}
                  /\ agg_in[1].ai_name # agg_in[2].ai_name) =>
                 /\ summary.successful_reviews = 2
                 /\ Cardinality(DOMAIN summary.reviews_by_ai) = 2

C10_Witness ==
    /\ pc = "aggregated"
    /\ \E i, j \in DOMAIN agg_in :
          /\ i < j
          /\ agg_in[i].success /\ agg_in[j].success
          /\ agg_in[i].ai_name = agg_in[j].ai_name
          /\ agg_in[i].output # agg_in[j].output
          /\ summary.reviews_by_ai[agg_in[j].ai_name] = agg_in[j].output
    /\ \E i \in DOMAIN agg_in : ~agg_in[i].success

\* C11 as claimed: for every list and every reordering of it the two
\* summaries have the same total_reviews, the same successful_reviews and
\* the same mapping from agent name to output.
C11_AggregateOrderInvariant ==
    pc = "aggregated_both" =>
        /\ summary_perm.total_reviews = summary.total_reviews
        /\ summary_perm.successful_reviews = summary.successful_reviews
        /\ summary_perm.reviews_by_ai = summary.reviews_by_ai

\* no two successful entries carry the same agent name with different outputs
NoConflictingSuccesses(rs) ==
    \A i, j \in DOMAIN rs :
        (rs[i].success /\ rs[j].success /\ rs[i].ai_name = rs[j].ai_name)
            => rs[i].output = rs[j].output

\* C11: for every list and every reordering of it the two summaries have
\* the same total_reviews, the same successful_reviews and the same agent
\* names; the outputs mapped to the names are the same too when no two
\* successful entries carry the same agent name with different outputs.
C11_AggregateOrderInvariantUnlessConflict ==
    pc = "aggregated_both" =>
        /\ summary_perm.total_reviews = summary.total_reviews
        /\ summary_perm.successful_reviews = summary.successful_reviews
        /\ DOMAIN summary_perm.reviews_by_ai = DOMAIN summary.reviews_by_ai
        /\ NoConflictingSuccesses(agg_in) =>
              summary_perm.reviews_by_ai = summary.reviews_by_ai

C11_Witness ==
    /\ pc = "aggregated_both"
    /\ agg_perm # agg_in
    /\ NoConflictingSuccesses(agg_in)
    /\ Cardinality(DOMAIN summary.reviews_by_ai) >= 2
    /\ \E i \in DOMAIN agg_in : ~agg_in[i].success
    /\ agg_in[1].ai_name # agg_perm[1].ai_name

\* the keyword occurs in the text, letter case set aside
Occurs(k, t) ==
    \E a \in 0..Len(t) :
        \A j \in DOMAIN k :
            a + j <= Len(t) /\ Lower(t[a + j]) = Lower(k[j])

OccursInOutput ==
    [k \in DOMAIN keywords |->
        [out \in ThemeOutputs |-> Occurs(keywords[k].chars, TextOf(out))]]

Mentions(k) ==
    {i \in DOMAIN themes_in : OccursInOutput[k][themes_in[i].output]}

Qualifying == {k \in DOMAIN keywords : Cardinality(Mentions(k)) >= 2}

\* C12: find_common_themes returns one entry for exactly the keywords that
\* occur, letter case set aside and as a substring, in the output of at
\* least 2 reviews of the input, in the order of the keyword list, each
\* with the number of reviews that contain it.
C12_ThemesAreKeywordsOfTwoReviews ==
    pc = "themes_found" =>
        /\ Len(common_themes) = Cardinality(Qualifying)
        /\ \A k \in Qualifying :
              \E e \in DOMAIN common_themes :
                 /\ common_themes[e] = [keyword |-> keywords[k].keyword,
                                        count |-> Cardinality(Mentions(k))]
                 /\ e = Cardinality({q \in Qualifying : q <= k})

\* two reviews hold "security" (one in capitals), one holds "performance"
C12_Witness ==
    /\ pc = "themes_found"
    /\ Len(themes_in) = 3
    /\ {themes_in[i].output : i \in DOMAIN themes_in} = {"o1", "o2", "o3"}
    /\ \E e \in DOMAIN common_themes :
          common_themes[e] = [keyword |-> "security", count |-> 2]
    /\ \A e \in DOMAIN common_themes : common_themes[e].keyword # "performance"

\* C13: the summary handed to the report counts the successes out of the
\* reviews requested: total_reviews is the number of reviewers and
\* successful_reviews the number of reviewers whose review was returned.
C13_SummaryCountsRequestedReviews ==
    report.generated =>
        /\ summary.total_reviews = Len(reviewer_names)
        /\ summary.successful_reviews = Len(review_results)

TimeoutMessages ==
    {d \in DOMAIN diagnostics : diagnostics[d].kind = "review_timeout"}
PerAgentMessages ==
    {d \in DOMAIN diagnostics :
        diagnostics[d].kind \in {"review_failed", "review_error"}}

\* C14: review_code prints the timeout message if and only if the timeout
\* elapsed (review calls were cancelled), once, and then prints no message
\* about a single reviewer; an empty result without timeout comes with one
\* message per reviewer and no timeout message.
C14_TimeoutReportedDistinctly ==
    ReviewCodeReturned =>
        /\ CancelledTasks # {} <=> Cardinality(TimeoutMessages) = 1
        /\ CancelledTasks = {} <=> Cardinality(TimeoutMessages) = 0
        /\ CancelledTasks # {} => PerAgentMessages = {}
        /\ (CancelledTasks = {} /\ review_results = <<>>) =>
              Cardinality(PerAgentMessages) = Len(reviews)

C14_Witness ==
    /\ ReviewCodeReturned
    /\ CancelledTasks # {}
    /\ FailedTasks # {}
    /\ RaisedTasks # {}
    /\ Cardinality(TimeoutMessages) = 1
    /\ PerAgentMessages = {}

\* C15: no review call exists before the implement call has returned with
\* success, and after an implementation with success == false the
\* workflow is over with no review call, no improve_file call and no report.
C15_ImplementBeforeReview ==
    /\ pc \in {"implement", "implementing"} =>
          reviews = <<>> /\ improve_calls = <<>>
    /\ reviews # <<>> => implementation.success
    /\ (implementation # NoResponse /\ ~implementation.success) =>
          /\ pc = "done"
          /\ reviews = <<>>
          /\ improve_calls = <<>>
          /\ ~report.generated

C15_Witness ==
    /\ pc = "done"
    /\ implementation # NoResponse
    /\ ~implementation.success
    /\ diagnostics = <<Diag("implement_failed", implementer_name)>>

CapableReviews ==
    {k \in DOMAIN review_results :
        LET reviewer == FindReviewer(reviewer_names, review_results[k].ai_name)
        IN reviewer # 0 /\ HasImproveFile(reviewer_names[reviewer])}
CallsFor(k) == {c \in DOMAIN improve_calls : improve_calls[c].review = k}
CallsTo(i) == {c \in DOMAIN improve_calls : improve_calls[c].client = i}
ImproveFailedMessages ==
    {d \in DOMAIN diagnostics : diagnostics[d].kind = "improve_failed"}

\* C16: when an improve_file call has returned success == false, the run
\* still ends with every capable reviewer of review_results invoked, each
\* call working on the file as the call before it left it, one failure
\* message per failed call, and the report generated.
C16_FailedImprovementDoesNotStopLoop ==
    (RunEnded /\ FailedCalls # {}) =>
        /\ \A k \in CapableReviews : CallsFor(k) # {}
        /\ \A c \in DOMAIN improve_calls :
              c > 1 => improve_calls[c].saw = improve_calls[c - 1].wrote
        /\ Cardinality(ImproveFailedMessages) = Cardinality(FailedCalls)
        /\ report.generated

\* C17: once the improvement loop is over, final_improved_code is what the
\* one read of the file gave: its content, or unavailable when the read
\* failed; a run that ends after a failed read has aggregated and generated
\* the report, with no final code in it.
C17_ReadBackFailureNotFatal ==
    /\ ImprovementFinished =>
          /\ code_file.exists =>
                final_improved_code = [available |-> TRUE,
                                       content |-> code_file.content]
          /\ ~code_file.exists => final_improved_code = NoFinalCode
    /\ (pc = "done" /\ next_review >= 1) =>
          /\ report.generated
          /\ report.final_code = final_improved_code
          /\ summary # NoSummary
          /\ agg_in = review_results

C17_Witness ==
    /\ pc = "done"
    /\ next_review >= 1
    /\ ~code_file.exists
    /\ report.generated
    /\ ~report.final_code.available
    /\ OkCalls # {}

\* C18 as stated: in a run that reached the review phase each client has one
\* review task and at most one improve_file call.
C18_OncePerClient ==
    reviews # <<>> =>
        /\ Len(reviews) = Len(reviewer_names)
        /\ \A i \in DOMAIN reviewer_names : Cardinality(CallsTo(i)) <= 1

DistinctNames ==
    \A i, j \in DOMAIN reviewer_names :
        reviewer_names[i] = reviewer_names[j] => i = j

\* C18: each client has one review task once the review phase is reached and
\* none before; improve_file is invoked at most once per entry of
\* review_results, in increasing entry order, so a client is invoked at most
\* as often as successful reviews carry its name: at most once when the
\* names are distinct.
C18_OncePerReview ==
    /\ Len(reviews) \in {0, Len(reviewer_names)}
    /\ pc \in {"implement", "implementing", "review"} => reviews = <<>>
    /\ pc \notin {"implement", "implementing", "review"} /\ implementation.success
          => Len(reviews) = Len(reviewer_names)
    /\ \A k \in DOMAIN review_results : Cardinality(CallsFor(k)) <= 1
    /\ \A c \in DOMAIN improve_calls :
          /\ improve_calls[c].review \in DOMAIN review_results
          /\ c > 1 => improve_calls[c - 1].review < improve_calls[c].review
    /\ \A i \in DOMAIN reviewer_names :
          Cardinality(CallsTo(i)) <=
             Cardinality({k \in DOMAIN review_results :
                             review_results[k].ai_name = reviewer_names[i]})
    /\ DistinctNames =>
          \A i \in DOMAIN reviewer_names : Cardinality(CallsTo(i)) <= 1

C18_Witness ==
    /\ pc = "done"
    /\ \E i \in DOMAIN reviewer_names : Cardinality(CallsTo(i)) = 2
    /\ FailedCalls # {}
    /\ FailedTasks # {}

\* C19: once review_code has returned no review task is pending; a task is
\* cancelled only by the timeout, which cancels all the pending ones in one
\* step: while the batch runs, whatever its siblings did, no task is
\* cancelled, and cancelled tasks come with the timeout message.
C19_OnlyTimeoutCancels ==
    /\ ReviewCodeReturned =>
          \A i \in DOMAIN reviews : reviews[i].kind # "pending"
    /\ pc = "reviewing" => CancelledTasks = {}
    /\ CancelledTasks # {} =>
          /\ Cardinality(TimeoutMessages) = 1
          /\ blocks \subseteq CancelledTasks

C19_Witness ==
    /\ ReviewCodeReturned
    /\ Cardinality(CancelledTasks) >= 2
    /\ FailedTasks \cup RaisedTasks # {}
    /\ blocks # {}
    /\ CancelledTasks \ blocks # {}

\* the k-th smallest element of a set of task positions
Kth(S, k) == CHOOSE i \in S : Cardinality({j \in S : j <= i}) = k

\* C20: without timeout, review_results holds the responses of the
\* successful tasks in the order of the reviewer list, in whatever order the
\* tasks ended, and the improve_file calls follow that order.
C20_ResultsInListOrder ==
    (ReviewCodeReturned /\ CancelledTasks = {}) =>
        /\ Len(review_results) = Cardinality(SucceededTasks)
        /\ \A k \in DOMAIN review_results :
              review_results[k] = reviews[Kth(SucceededTasks, k)].resp
        /\ \A c \in DOMAIN improve_calls :
              /\ c > 1 => improve_calls[c - 1].review < improve_calls[c].review
              /\ improve_calls[c].ai_name =
                    reviewer_names[Kth(SucceededTasks, improve_calls[c].review)]

C20_Witness ==
    /\ pc = "done"
    /\ out_of_order
    /\ CancelledTasks = {}
    /\ FailedTasks \cup RaisedTasks # {}
    /\ Len(review_results) >= 2
    /\ review_results[1] # review_results[2]
    /\ Len(improve_calls) >= 2

\* C21: when main calls run_review_workflow, the reviewer list it hands
\* over is not empty and holds no reviewer whose configuration has
\* enabled == false.
C21_NoDisabledReviewerHandedOver ==
    pc = "implement" =>
        /\ reviewer_names # <<>>
        /\ \A i \in DOMAIN reviewer_names : cfg[reviewer_names[i]].enabled

\* C22: whatever the interleaving of the threads, at most one object is
\* ever created, and every constructor call returns that object: every
\* returned reference, and every reference a thread holds as self, is the
\* one stored in Singleton._instance.
C22_OneInstance ==
    /\ Len(objects) <= 1
    /\ instance \in {0} \cup DOMAIN objects
    /\ \A t \in DOMAIN threads :
          /\ \A k \in DOMAIN threads[t].returned :
                threads[t].returned[k] = 1 /\ instance = 1
          /\ threads[t].pc \in {"init_check", "init_value", "init_flag"} =>
                threads[t].self = 1 /\ instance = 1

\* a thread that passed the first test, waited for the lock and found the
\* instance under the lock, while another thread has had it returned
C22_Witness ==
    \E t, u \in DOMAIN threads :
        /\ t # u
        /\ threads[t].pc = "new_release"
        /\ threads[t].temp = 0
        /\ threads[t].returned = <<>>
        /\ threads[u].returned = <<1>>
        /\ Len(objects) = 1

\* C23: the assignment self.value = value runs for at most one constructor
\* call, so a value that has been set is never overwritten.
C23_InitialisedOnce ==
    Len(value_writes) <= 1

====
